---- MODULE Spec2Model ----
(***************************************************************************)
(* A model of the Nifty portfolio analyzer: the "Analyze Portfolios"       *)
(* handler of show_portfolio_analysis (src/app.py), the retrying download  *)
(* of NiftyDataFetcher.fetch_stock_data (src/modules/data_fetcher.py) and  *)
(* the winner determination that compares two metrics results;            *)
(* NiftyDataFetcher.validate_data; and the metrics engine of spec.md       *)
(* 4.2-4.4 (PortfolioConstructor, ReturnSeriesComputer, MetricsEngine),    *)
(* whose code app.py imports from modules that are not in src/.            *)
(*                                                                         *)
(* Numbers.  Weights are percentages held in hundredths of a percent, so   *)
(* 100 % is 10000 and the tolerance 0.01 is 1.  Metric values are held in  *)
(* hundredths (CAGR 0.12 is 12, Sharpe 0.9 is 90); a metric value is a     *)
(* record so that the float NaN, which compares false with everything,     *)
(* has a place.  The metrics engine computes in exact fractions.           *)
(***************************************************************************)
EXTENDS Integers, Sequences, FiniteSets, TLC

VARIABLES
    pc,        \* position in the Analyze handler of show_portfolio_analysis
    stocks,    \* stocks_a / stocks_b: the multiselect lists, in selection order
    weights,   \* weights_a / weights_b: dict stock -> weight
    valid,     \* valid_a / valid_b as returned by validate_weights
    report,    \* what the page showed for each portfolio
    metrics,   \* metrics_a / metrics_b: local names, unbound until assigned
    verdict,   \* the message of the winner determination
    fetched,   \* portfolios for which fetch_stock_data was called in this request
    failed,    \* portfolios in whose own block an exception was raised
    f_who,     \* the caller of the running fetch_stock_data call
    f_stocks,  \* its stocks argument
    f_pc,      \* its position
    attempt,   \* its loop variable
    raw,       \* what yf.download delivered on the latest attempt
    f_ret,     \* the DataFrame it returned
    log,       \* outcome of every download attempt of the call, in order
    waits,     \* the time.sleep durations of the call, in order
    m_pc,            \* position of one portfolio in the metrics engine
    price_matrix,    \* PriceMatrix: symbol -> prices on the aligned dates
    weight_vector,   \* WeightVector: symbol -> fraction of the portfolio
    risk_free_rate,  \* annual risk-free rate
    benchmark,       \* the optional BenchmarkSeries
    value_series,    \* ValueSeries of the portfolio
    return_series,   \* ReturnSeries of the portfolio
    condition,       \* the reported condition of the engine, "none" if none
    metrics_result,  \* MetricsResult: metric name -> value
    v_data,          \* the argument of a validate_data call
    is_valid,        \* what the call returned, FALSE before it returns
    app_mode,           \* st.session_state.app_mode
    last_stocks_count,  \* st.session_state.last_stocks_a_count / _b_count
    session_weight,     \* st.session_state["weight_a_<stock>"] / ["weight_b_<stock>"]
    clicked,            \* the button that returns True in the script run, "none" if none
    page                \* the page function called by the latest run of main

vars == << pc, stocks, weights, valid, report, metrics, verdict, fetched, failed,
           f_who, f_stocks, f_pc, attempt, raw, f_ret, log, waits,
           m_pc, price_matrix, weight_vector, risk_free_rate, benchmark,
           value_series, return_series, condition, metrics_result,
           v_data, is_valid,
           app_mode, last_stocks_count, session_weight, clicked, page >>

appVars == << pc, stocks, weights, valid, report, metrics, verdict, fetched, failed >>

fetchVars == << f_who, f_stocks, f_pc, attempt, raw, f_ret, log, waits >>

engineVars == << m_pc, price_matrix, weight_vector, risk_free_rate, benchmark,
                value_series, return_series, condition, metrics_result,
                v_data, is_valid >>

sessionVars == << app_mode, last_stocks_count, session_weight, clicked, page >>

Portfolios == {"A", "B"}

----------------------------------------------------------------------------
(* Metric values and metrics results                                       *)

NaN == [nan |-> TRUE, v |-> 0]

Num(x) == [nan |-> FALSE, v |-> x]

\* Python's float comparison x > y: false whenever either side is NaN.
Gt(x, y) == ~x.nan /\ ~y.nan /\ x.v > y.v

\* Python's float comparison x == y: false whenever either side is NaN.
NumEq(x, y) == ~x.nan /\ ~y.nan /\ x.v = y.v

\* dict.get(key, default)
Get(m, key, default) == IF key \in DOMAIN m THEN m[key] ELSE default

Unbound == [bound |-> FALSE, m |-> << >>]

Bound(m) == [bound |-> TRUE, m |-> m]

CagrValues == {Num(0), Num(8), Num(12), NaN}

SharpeValues == {Num(0), Num(90), Num(120), NaN}

\* A metrics result as the comparison reads it: the keys may be absent.
MetricsResults ==
    { m \in UNION { [K -> CagrValues \cup SharpeValues] : K \in SUBSET {"CAGR", "Sharpe Ratio"} } :
        /\ ("CAGR" \in DOMAIN m => m["CAGR"] \in CagrValues)
        /\ ("Sharpe Ratio" \in DOMAIN m => m["Sharpe Ratio"] \in SharpeValues) }

----------------------------------------------------------------------------
(* The winner determination                                                *)

\* Variant: the first test joined with 'or'.
WinnerDeterminationOr(cagr_a, cagr_b, sharpe_a, sharpe_b) ==
    IF Gt(cagr_a, cagr_b) \/ Gt(sharpe_a, sharpe_b) THEN "BothBetter(A)"
    ELSE IF Gt(cagr_b, cagr_a) /\ Gt(sharpe_b, sharpe_a) THEN "BothBetter(B)"
    ELSE IF Gt(cagr_a, cagr_b) THEN "HigherReturn(A)"
    ELSE IF Gt(cagr_b, cagr_a) THEN "HigherReturn(B)"
    ELSE "Comparable"

\* Variant: without the two higher-return branches.
WinnerDeterminationNoCaveat(cagr_a, cagr_b, sharpe_a, sharpe_b) ==
    IF Gt(cagr_a, cagr_b) /\ Gt(sharpe_a, sharpe_b) THEN "BothBetter(A)"
    ELSE IF Gt(cagr_b, cagr_a) /\ Gt(sharpe_b, sharpe_a) THEN "BothBetter(B)"
    ELSE "Comparable"

\* Variant: equal CAGR decided by the Sharpe Ratio.
WinnerDeterminationTieBreak(cagr_a, cagr_b, sharpe_a, sharpe_b) ==
    IF Gt(cagr_a, cagr_b) /\ Gt(sharpe_a, sharpe_b) THEN "BothBetter(A)"
    ELSE IF Gt(cagr_b, cagr_a) /\ Gt(sharpe_b, sharpe_a) THEN "BothBetter(B)"
    ELSE IF Gt(cagr_a, cagr_b) THEN "HigherReturn(A)"
    ELSE IF Gt(cagr_b, cagr_a) THEN "HigherReturn(B)"
    ELSE IF Gt(sharpe_a, sharpe_b) THEN "HigherReturn(A)"
    ELSE "Comparable"

\* Variant: B's Sharpe test as 'not lower' instead of 'higher'.
WinnerDeterminationGeB(cagr_a, cagr_b, sharpe_a, sharpe_b) ==
    IF Gt(cagr_a, cagr_b) /\ Gt(sharpe_a, sharpe_b) THEN "BothBetter(A)"
    ELSE IF Gt(cagr_b, cagr_a) /\ ~Gt(sharpe_a, sharpe_b) THEN "BothBetter(B)"
    ELSE IF Gt(cagr_a, cagr_b) THEN "HigherReturn(A)"
    ELSE IF Gt(cagr_b, cagr_a) THEN "HigherReturn(B)"
    ELSE "Comparable"

\* The winner determination of the quick comparison.
WinnerDetermination(cagr_a, cagr_b, sharpe_a, sharpe_b) ==
    IF Gt(cagr_a, cagr_b) /\ Gt(sharpe_a, sharpe_b) THEN "BothBetter(A)"
    ELSE IF Gt(cagr_b, cagr_a) /\ Gt(sharpe_b, sharpe_a) THEN "BothBetter(B)"
    ELSE IF Gt(cagr_a, cagr_b) THEN "HigherReturn(A)"
    ELSE IF Gt(cagr_b, cagr_a) THEN "HigherReturn(B)"
    ELSE "Comparable"

\* The four values the quick comparison reads, missing keys read as 0.
cagr_a == Get(metrics["A"].m, "CAGR", Num(0))

cagr_b == Get(metrics["B"].m, "CAGR", Num(0))

sharpe_a == Get(metrics["A"].m, "Sharpe Ratio", Num(0))

sharpe_b == Get(metrics["B"].m, "Sharpe Ratio", Num(0))

\* Variant: metrics_a and metrics_b start as empty dicts, so the comparison
\* reads the metrics of a portfolio that has none as 0.
CompareDefaults ==
    /\ pc = "compare"
    /\ IF stocks["A"] # << >> /\ DOMAIN weights["A"] # {}
          /\ stocks["B"] # << >> /\ DOMAIN weights["B"] # {}
       THEN verdict' = WinnerDetermination(cagr_a, cagr_b, sharpe_a, sharpe_b)
       ELSE verdict' = verdict
    /\ pc' = "done"
    /\ UNCHANGED << stocks, weights, valid, report, metrics, fetched, failed >>
    /\ UNCHANGED fetchVars
    /\ UNCHANGED engineVars
    /\ UNCHANGED sessionVars

\* The comparison block: skipped unless both portfolios are selected; a
\* use of an unbound metrics_a / metrics_b raises NameError, which the
\* block's own handler reports as a comparison error.
Compare ==
    /\ pc = "compare"
    /\ IF stocks["A"] # << >> /\ DOMAIN weights["A"] # {}
          /\ stocks["B"] # << >> /\ DOMAIN weights["B"] # {}
       THEN IF metrics["A"].bound /\ metrics["B"].bound
            THEN verdict' = WinnerDetermination(cagr_a, cagr_b, sharpe_a, sharpe_b)
            ELSE verdict' = "Comparison error"
       ELSE verdict' = verdict
    /\ pc' = "done"
    /\ UNCHANGED << stocks, weights, valid, report, metrics, fetched, failed >>
    /\ UNCHANGED fetchVars
    /\ UNCHANGED engineVars
    /\ UNCHANGED sessionVars

----------------------------------------------------------------------------
(* NiftyDataFetcher.fetch_stock_data                                       *)

Stocks == {"S1", "S2"}

\* Lists of distinct stocks, as st.multiselect delivers them.
StockLists ==
    { << >> } \cup { << s >> : s \in Stocks }
              \cup { q \in { << s, t >> : s \in Stocks, t \in Stocks } : q[1] # q[2] }

MaxDates == 2

MaxPrice == 2

\* A missing value (pandas NaN) in a price cell; prices are positive.
NA == 0

max_retries == 3

base_wait == 10

RateLimitKeywords == {"rate", "too many", "throttle", "429", "503", "timeout"}

\* The keywords and other words found in the lower-cased text of an
\* exception raised by the download.
DownloadErrors == { {"connection"}, {"429"}, {"connection", "timeout"} }

\* stock_symbols: the .NS suffix is added unless already there; the stocks
\* offered by get_nifty_50_stocks never carry it.
stock_symbols(stock_list) == [i \in 1..Len(stock_list) |-> stock_list[i] \o ".NS"]

Perms(seq) ==
    { p \in [1..Len(seq) -> {seq[i] : i \in 1..Len(seq)}] :
        \A i, j \in 1..Len(seq) : i # j => p[i] # p[j] }

\* Rows of n dates 1..n over k positional columns.
RowsOf(n, k, prices) ==
    { r \in [1..n -> [date : 1..n, vals : [1..k -> {NA} \cup prices]]] :
        \A i \in 1..n : r[i].date = i }

NoFrame == [cols |-> << >>, src |-> << >>, rows |-> << >>]

\* No BenchmarkSeries is passed.
NoBenchmark == [present |-> FALSE, V |-> << >>]

NoRaw ==
    [kind |-> "none", keywords |-> {}, src |-> << >>, rows |-> << >>]

\* What one yf.download(stock_symbols, ...) can do: raise, or deliver a
\* DataFrame whose Close columns hold the tickers in some order, a Series
\* (one ticker), or something else.
RawResults(tickers, maxDates, prices) ==
    { [kind |-> "raise", keywords |-> kw, src |-> << >>, rows |-> << >>] :
        kw \in DownloadErrors }
    \cup { [kind |-> "DataFrame", keywords |-> {}, src |-> p, rows |-> r] :
             p \in Perms(tickers),
             r \in UNION { RowsOf(n, Len(tickers), prices) : n \in 0..maxDates } }
    \cup { [kind |-> "Series", keywords |-> {}, src |-> tickers, rows |-> r] :
             r \in UNION { RowsOf(n, 1, prices) : n \in 0..maxDates } }
    \cup { [kind |-> "other", keywords |-> {}, src |-> << >>, rows |-> << >>] }

Complete(row) == \A i \in 1..Len(row.vals) : row.vals[i] # NA

\* Variant: dropna(how='all'), dropping only the rows with no value at all.
dropnaAll(rows) == SelectSeq(rows, LAMBDA row : \E i \in 1..Len(row.vals) : row.vals[i] # NA)

\* DataFrame.dropna(): keep the rows without a missing value.
dropna(rows) == SelectSeq(rows, Complete)

Return(frame) == [kind |-> "return", data |-> frame, keywords |-> {}]

Raise(kw) == [kind |-> "raise", data |-> NoFrame, keywords |-> kw]

\* The columns taken from the download and relabelled with the requested
\* stocks by position (data.columns = stocks).
close_data(stock_list, r) ==
    IF Len(stock_list) = 1
    THEN IF r.kind \in {"DataFrame", "Series"}
         THEN Return([cols |-> << stock_list[1] >>, src |-> r.src, rows |-> r.rows])
         ELSE Raise({})   \* "Unexpected data structure for ..."
    ELSE IF r.kind = "DataFrame"
         THEN Return([cols |-> stock_list, src |-> r.src, rows |-> r.rows])
         ELSE Raise({})   \* no .columns on anything else

\* Variant: without the 'if data.empty: raise'.
try_bodyKeepEmpty(stock_list, r) ==
    IF r.kind = "raise" THEN Raise(r.keywords)
    ELSE LET c == close_data(stock_list, r) IN
         IF c.kind = "raise" THEN c
         ELSE Return([c.data EXCEPT !.rows = dropna(c.data.rows)])

\* The body of the inner try: download, select and relabel the Close
\* columns, drop the rows with a missing value, raise when nothing is left.
try_body(stock_list, r) ==
    IF r.kind = "raise" THEN Raise(r.keywords)
    ELSE LET c == close_data(stock_list, r) IN
         IF c.kind = "raise" THEN c
         ELSE LET data == [c.data EXCEPT !.rows = dropna(c.data.rows)] IN
              IF data.rows = << >>
              THEN Raise({})   \* "No valid data retrieved for ..."
              ELSE Return(data)

is_rate_limit(kw) == kw \cap RateLimitKeywords # {}

\* Variant: without the 'attempt < max_retries - 1' test.
will_retryAlways(kw, att) == is_rate_limit(kw)

\* Variant: without the is_rate_limit test.
will_retryAnyError(kw, att) == att < max_retries - 1

\* The handler's decision: wait and try again, or raise to the caller.
will_retry(kw, att) == is_rate_limit(kw) /\ att < max_retries - 1

Pow2(n) == IF n = 0 THEN 1 ELSE IF n = 1 THEN 2 ELSE IF n = 2 THEN 4 ELSE 8

wait_time(att) == base_wait * Pow2(att)

LogEntry(out) == [ok |-> out.kind = "return", rate |-> is_rate_limit(out.keywords)]

\* An attempt whose try body reaches "return data".
AttemptReturns(maxDates, prices) ==
    /\ f_pc = "download"
    /\ \E r \in RawResults(stock_symbols(f_stocks), maxDates, prices) :
         LET out == try_body(f_stocks, r) IN
           /\ out.kind = "return"
           /\ raw' = r
           /\ f_ret' = out.data
           /\ log' = Append(log, LogEntry(out))
    /\ f_pc' = "returned"
    /\ UNCHANGED << f_who, f_stocks, attempt, waits >>
    /\ UNCHANGED appVars
    /\ UNCHANGED engineVars
    /\ UNCHANGED sessionVars

\* An attempt that fails with a rate-limit error while retries remain:
\* sleep, then continue with the next value of the loop variable; a loop
\* that runs out ends the function without a return value.
AttemptRetries(maxDates, prices) ==
    /\ f_pc = "download"
    /\ \E r \in RawResults(stock_symbols(f_stocks), maxDates, prices) :
         LET out == try_body(f_stocks, r) IN
           /\ out.kind = "raise"
           /\ will_retry(out.keywords, attempt)
           /\ raw' = r
           /\ log' = Append(log, LogEntry(out))
    /\ waits' = Append(waits, wait_time(attempt))
    /\ attempt' = attempt + 1
    /\ f_pc' = IF attempt + 1 < max_retries THEN "download" ELSE "fell_through"
    /\ UNCHANGED << f_who, f_stocks, f_ret >>
    /\ UNCHANGED appVars
    /\ UNCHANGED engineVars
    /\ UNCHANGED sessionVars

\* An attempt whose failure is raised ("Error fetching data ...", wrapped
\* by the outer handler into "Failed to fetch data ...").
AttemptRaises(maxDates, prices) ==
    /\ f_pc = "download"
    /\ \E r \in RawResults(stock_symbols(f_stocks), maxDates, prices) :
         LET out == try_body(f_stocks, r) IN
           /\ out.kind = "raise"
           /\ ~will_retry(out.keywords, attempt)
           /\ raw' = r
           /\ log' = Append(log, LogEntry(out))
    /\ f_pc' = "raised"
    /\ UNCHANGED << f_who, f_stocks, attempt, f_ret, waits >>
    /\ UNCHANGED appVars
    /\ UNCHANGED engineVars
    /\ UNCHANGED sessionVars

\* The state on entry to fetch_stock_data(stock_list, period).
FetchEntry(who, stock_list) ==
    /\ f_who' = who
    /\ f_stocks' = stock_list
    /\ f_pc' = "download"
    /\ attempt' = 0
    /\ raw' = NoRaw
    /\ f_ret' = NoFrame
    /\ log' = << >>
    /\ waits' = << >>

FetchIdle ==
    /\ f_who = "none"
    /\ f_stocks = << >>
    /\ f_pc = "idle"
    /\ attempt = 0
    /\ raw = NoRaw
    /\ f_ret = NoFrame
    /\ log = << >>
    /\ waits = << >>

\* No portfolio is in the metrics engine.
MetricsIdle ==
    /\ m_pc = "idle"
    /\ price_matrix = << >>
    /\ weight_vector = << >>
    /\ risk_free_rate = 0
    /\ benchmark = NoBenchmark
    /\ value_series = << >>
    /\ return_series = << >>
    /\ condition = "none"
    /\ metrics_result = << >>

\* No data is being validated.
ValidateIdle ==
    /\ v_data = NoFrame
    /\ is_valid = FALSE

EngineIdle == MetricsIdle /\ ValidateIdle

\* The Analyze handler is not running.
AppIdle ==
    /\ pc = "idle"
    /\ stocks = [p \in Portfolios |-> << >>]
    /\ weights = [p \in Portfolios |-> << >>]
    /\ valid = [p \in Portfolios |-> TRUE]
    /\ report = [p \in Portfolios |-> "none"]
    /\ metrics = [p \in Portfolios |-> Unbound]
    /\ verdict = "none"
    /\ fetched = {}
    /\ failed = {}

\* The session before any page other than the landing page was shown.
SessionIdle ==
    /\ app_mode = "Home"
    /\ last_stocks_count = [p \in Portfolios |-> 0]
    /\ session_weight = [p \in Portfolios |-> << >>]
    /\ clicked = "none"
    /\ page = "show_landing_page"

----------------------------------------------------------------------------
(* One call of fetch_stock_data, for every non-empty list of stocks        *)

InitFetch ==
    /\ pc = "idle"
    /\ stocks = [p \in Portfolios |-> << >>]
    /\ weights = [p \in Portfolios |-> << >>]
    /\ valid = [p \in Portfolios |-> TRUE]
    /\ report = [p \in Portfolios |-> "none"]
    /\ metrics = [p \in Portfolios |-> Unbound]
    /\ verdict = "none"
    /\ fetched = {}
    /\ failed = {}
    /\ f_who = "caller"
    /\ f_stocks \in StockLists \ { << >> }
    /\ f_pc = "download"
    /\ attempt = 0
    /\ raw = NoRaw
    /\ f_ret = NoFrame
    /\ log = << >>
    /\ waits = << >>
    /\ EngineIdle
    /\ SessionIdle

NextFetch ==
    \/ AttemptReturns(MaxDates, 1..MaxPrice)
    \/ AttemptRetries(MaxDates, 1..MaxPrice)
    \/ AttemptRaises(MaxDates, 1..MaxPrice)

SpecFetch == InitFetch /\ [][NextFetch]_vars

----------------------------------------------------------------------------
(* The "Analyze Portfolios" handler of show_portfolio_analysis             *)

W100 == 10000

Tol == 1

AnalyzeDates == 1

Abs(x) == IF x < 0 THEN -x ELSE x

RECURSIVE SumOver(_, _)
SumOver(w, keys) ==
    IF keys = {} THEN 0
    ELSE LET k == CHOOSE k \in keys : TRUE IN w[k] + SumOver(w, keys \ {k})

\* sum(weights.values())
total(w) == SumOver(w, DOMAIN w)

\* Variant: without abs().
validate_weightsNoAbs(w) ==
    IF DOMAIN w = {} THEN TRUE
    ELSE IF total(w) - W100 > Tol THEN FALSE
    ELSE TRUE

\* validate_weights(weights, portfolio_name), its first result.
validate_weights(w) ==
    IF DOMAIN w = {} THEN TRUE
    ELSE IF Abs(total(w) - W100) > Tol THEN FALSE
    ELSE TRUE

FetchPc(p) == p \o "_fetch"

NextBlock(p) == IF p = "A" THEN "B" ELSE "compare"

\* Variant: the retry loop's counter and record outlive the call.
ResetFetchKeepsRetries ==
    /\ f_who' = "none"
    /\ f_stocks' = << >>
    /\ f_pc' = "idle"
    /\ attempt' = attempt
    /\ raw' = NoRaw
    /\ f_ret' = NoFrame
    /\ log' = log
    /\ waits' = waits

ResetFetch ==
    /\ f_who' = "none"
    /\ f_stocks' = << >>
    /\ f_pc' = "idle"
    /\ attempt' = 0
    /\ raw' = NoRaw
    /\ f_ret' = NoFrame
    /\ log' = << >>
    /\ waits' = << >>

\* Variant: the error is shown, but st.stop() is not called.
ValidateWarns ==
    /\ pc = "validate"
    /\ LET valid_a == validate_weights(weights["A"])
           valid_b == validate_weights(weights["B"])
       IN /\ valid' = [p \in Portfolios |-> IF p = "A" THEN valid_a ELSE valid_b]
          /\ IF stocks["A"] # << >> /\ ~valid_a
             THEN /\ report' = [report EXCEPT !["A"] = "weight error"]
                  /\ pc' = "A"
             ELSE IF stocks["B"] # << >> /\ ~valid_b
             THEN /\ report' = [report EXCEPT !["B"] = "weight error"]
                  /\ pc' = "A"
             ELSE /\ report' = report
                  /\ pc' = "A"
    /\ UNCHANGED << stocks, weights, metrics, verdict, fetched, failed >>
    /\ UNCHANGED fetchVars
    /\ UNCHANGED engineVars
    /\ UNCHANGED sessionVars

\* The button was pressed: validate both weight maps; an invalid map of a
\* selected portfolio is reported and st.stop() ends the run.
Validate ==
    /\ pc = "validate"
    /\ LET valid_a == validate_weights(weights["A"])
           valid_b == validate_weights(weights["B"])
       IN /\ valid' = [p \in Portfolios |-> IF p = "A" THEN valid_a ELSE valid_b]
          /\ IF stocks["A"] # << >> /\ ~valid_a
             THEN /\ report' = [report EXCEPT !["A"] = "weight error"]
                  /\ pc' = "stopped"
             ELSE IF stocks["B"] # << >> /\ ~valid_b
             THEN /\ report' = [report EXCEPT !["B"] = "weight error"]
                  /\ pc' = "stopped"
             ELSE /\ report' = report
                  /\ pc' = "A"
    /\ UNCHANGED << stocks, weights, metrics, verdict, fetched, failed >>
    /\ UNCHANGED fetchVars
    /\ UNCHANGED engineVars
    /\ UNCHANGED sessionVars

\* "if stocks_a and weights_a:" holds: the block calls fetch_stock_data.
CallFetch(p) ==
    /\ pc = p
    /\ stocks[p] # << >> /\ DOMAIN weights[p] # {}
    /\ FetchEntry(p, stocks[p])
    /\ fetched' = fetched \cup {p}
    /\ pc' = FetchPc(p)
    /\ UNCHANGED << stocks, weights, valid, report, metrics, verdict, failed >>
    /\ UNCHANGED engineVars
    /\ UNCHANGED sessionVars

\* "if stocks_a and weights_a:" fails: the block is skipped.
SkipBlock(p) ==
    /\ pc = p
    /\ ~(stocks[p] # << >> /\ DOMAIN weights[p] # {})
    /\ pc' = NextBlock(p)
    /\ UNCHANGED << stocks, weights, valid, report, metrics, verdict, fetched, failed >>
    /\ UNCHANGED fetchVars
    /\ UNCHANGED engineVars
    /\ UNCHANGED sessionVars

\* Variant: the block's error reaches the outer handler, which ends the run.
except_blockPropagates(p) ==
    /\ failed' = failed \cup {p}
    /\ report' = report
    /\ pc' = "done"

\* The block's own "except Exception": the error is shown for this
\* portfolio and the handler goes on after the block.
except_block(p) ==
    /\ failed' = failed \cup {p}
    /\ report' = [report EXCEPT ![p] = "error"]
    /\ pc' = NextBlock(p)

\* fetch_stock_data raised.
FetchFailed(p) ==
    /\ pc = FetchPc(p)
    /\ f_pc = "raised"
    /\ except_block(p)
    /\ ResetFetch
    /\ UNCHANGED << stocks, weights, valid, metrics, verdict, fetched >>
    /\ UNCHANGED engineVars
    /\ UNCHANGED sessionVars

\* fetch_stock_data returned data, and PortfolioAnalyzer, MetricsCalculator,
\* display_metrics or PortfolioVisualizer raised: before metrics_a was
\* assigned (bound = FALSE) or after.
AnalysisFailed(p, results) ==
    /\ pc = FetchPc(p)
    /\ f_pc = "returned"
    /\ f_ret.rows # << >>
    /\ \/ metrics' = metrics
       \/ \E m \in results : metrics' = [metrics EXCEPT ![p] = Bound(m)]
    /\ except_block(p)
    /\ ResetFetch
    /\ UNCHANGED << stocks, weights, valid, verdict, fetched >>
    /\ UNCHANGED engineVars
    /\ UNCHANGED sessionVars

\* fetch_stock_data returned: empty data is reported as "No data
\* available"; otherwise the metrics are computed and displayed.
AnalysisDone(p, results) ==
    /\ pc = FetchPc(p)
    /\ f_pc = "returned"
    /\ IF f_ret.rows = << >>
       THEN /\ report' = [report EXCEPT ![p] = "No data available"]
            /\ metrics' = metrics
       ELSE /\ \E m \in results : metrics' = [metrics EXCEPT ![p] = Bound(m)]
            /\ report' = [report EXCEPT ![p] = "complete"]
    /\ pc' = NextBlock(p)
    /\ ResetFetch
    /\ UNCHANGED << stocks, weights, valid, verdict, fetched, failed >>
    /\ UNCHANGED engineVars
    /\ UNCHANGED sessionVars

Half == W100 \div 2

WeightChoices == {Half - Tol, Half, Half + Tol, W100}

WeightMaps(stock_list) == [{stock_list[i] : i \in 1..Len(stock_list)} -> WeightChoices]

\* The metrics results the request flow distinguishes.
AnalyzeResults ==
    { [k \in {"CAGR", "Sharpe Ratio"} |-> IF k = "CAGR" THEN Num(12) ELSE Num(90)],
      [k \in {"CAGR", "Sharpe Ratio"} |-> IF k = "CAGR" THEN Num(8) ELSE Num(120)] }

\* The state when the button is pressed: the page has rendered, so each
\* weight map has exactly the selected stocks as keys.
InitAnalyze ==
    /\ pc = "validate"
    /\ stocks \in [Portfolios -> StockLists]
    /\ weights \in { w \in [Portfolios -> UNION { WeightMaps(l) : l \in StockLists }] :
                       \A p \in Portfolios : w[p] \in WeightMaps(stocks[p]) }
    /\ valid = [p \in Portfolios |-> TRUE]
    /\ report = [p \in Portfolios |-> "none"]
    /\ metrics = [p \in Portfolios |-> Unbound]
    /\ verdict = "none"
    /\ fetched = {}
    /\ failed = {}
    /\ FetchIdle
    /\ EngineIdle
    /\ SessionIdle

NextAnalyze ==
    \/ Validate
    \/ \E p \in Portfolios : CallFetch(p)
    \/ \E p \in Portfolios : SkipBlock(p)
    \/ AttemptReturns(AnalyzeDates, {MaxPrice})
    \/ AttemptRetries(AnalyzeDates, {MaxPrice})
    \/ AttemptRaises(AnalyzeDates, {MaxPrice})
    \/ \E p \in Portfolios : FetchFailed(p)
    \/ \E p \in Portfolios : AnalysisFailed(p, AnalyzeResults)
    \/ \E p \in Portfolios : AnalysisDone(p, AnalyzeResults)
    \/ Compare

SpecAnalyze == InitAnalyze /\ [][NextAnalyze]_vars

----------------------------------------------------------------------------
(* The comparison alone, over every pair of metrics results                *)

InitCompare ==
    /\ pc = "compare"
    /\ stocks = [p \in Portfolios |-> IF p = "A" THEN << "S1" >> ELSE << "S2" >>]
    /\ weights = [p \in Portfolios |-> IF p = "A" THEN [s \in {"S1"} |-> W100]
                                                   ELSE [s \in {"S2"} |-> W100]]
    /\ valid = [p \in Portfolios |-> TRUE]
    /\ report = [p \in Portfolios |-> "complete"]
    /\ metrics \in [Portfolios -> { Bound(m) : m \in MetricsResults }]
    /\ verdict = "none"
    /\ fetched = Portfolios
    /\ failed = {}
    /\ FetchIdle
    /\ EngineIdle
    /\ SessionIdle

NextCompare == Compare

SpecCompare == InitCompare /\ [][NextCompare]_vars

----------------------------------------------------------------------------
(* Claims                                                                  *)

\* C1: the verdict is BothBetter(A) exactly when A has the strictly higher
\* CAGR and the strictly higher Sharpe Ratio, and BothBetter(B) exactly when
\* B has both.
C1_DominanceRule ==
    pc = "done" =>
        /\ (verdict = "BothBetter(A)") <=> (Gt(cagr_a, cagr_b) /\ Gt(sharpe_a, sharpe_b))
        /\ (verdict = "BothBetter(B)") <=> (Gt(cagr_b, cagr_a) /\ Gt(sharpe_b, sharpe_a))

C1_Witness ==
    /\ pc = "done"
    /\ verdict = "BothBetter(B)"
    /\ Gt(cagr_b, cagr_a) /\ Gt(sharpe_b, sharpe_a)

\* C2: a portfolio with the strictly higher CAGR but not the strictly higher
\* Sharpe Ratio gets HigherReturn; A(0.12, 0.9) against B(0.08, 1.2) gives
\* HigherReturn(A).
C2_HigherReturnRule ==
    pc = "done" =>
        /\ (Gt(cagr_a, cagr_b) /\ ~Gt(sharpe_a, sharpe_b)) => verdict = "HigherReturn(A)"
        /\ (Gt(cagr_b, cagr_a) /\ ~Gt(sharpe_b, sharpe_a)) => verdict = "HigherReturn(B)"
        /\ (/\ cagr_a = Num(12) /\ sharpe_a = Num(90)
            /\ cagr_b = Num(8) /\ sharpe_b = Num(120)) => verdict = "HigherReturn(A)"

C2_Witness ==
    /\ pc = "done"
    /\ cagr_a = Num(12) /\ sharpe_a = Num(90)
    /\ cagr_b = Num(8) /\ sharpe_b = Num(120)
    /\ verdict = "HigherReturn(A)"

\* C3: whenever the two CAGR values are equal the verdict is Comparable,
\* whatever the Sharpe Ratios are.
C3_TieRule ==
    (pc = "done" /\ cagr_a = cagr_b) => verdict = "Comparable"

C3_Witness ==
    /\ pc = "done"
    /\ cagr_a = cagr_b
    /\ Gt(sharpe_a, sharpe_b)
    /\ verdict = "Comparable"

Mirror(v) ==
    CASE v = "BothBetter(A)" -> "BothBetter(B)"
      [] v = "BothBetter(B)" -> "BothBetter(A)"
      [] v = "HigherReturn(A)" -> "HigherReturn(B)"
      [] v = "HigherReturn(B)" -> "HigherReturn(A)"
      [] OTHER -> v

\* C4: comparing (B, A) yields the mirror image of the verdict of (A, B).
C4_OrderIndependent ==
    pc = "done" =>
        WinnerDetermination(cagr_b, cagr_a, sharpe_b, sharpe_a) = Mirror(verdict)

C4_Witness ==
    /\ pc = "done"
    /\ verdict = "HigherReturn(B)"
    /\ WinnerDetermination(cagr_b, cagr_a, sharpe_b, sharpe_a) = "HigherReturn(A)"

\* C5: with both portfolios selected and valid weights, a failure in the
\* fetch or the computation of Portfolio A is reported for A, Portfolio B is
\* still fetched, and B shows an error only for a failure of its own.
C5_ErrorIsolation ==
    (pc = "done" /\ stocks["A"] # << >> /\ stocks["B"] # << >> /\ "A" \in failed) =>
        /\ report["A"] = "error"
        /\ "B" \in fetched
        /\ report["B"] \in {"complete", "error"}
        /\ (report["B"] = "error") <=> ("B" \in failed)
        /\ (report["B"] = "complete") => metrics["B"].bound

C5_Witness ==
    /\ pc = "done"
    /\ "A" \in failed
    /\ ~metrics["A"].bound
    /\ report["B"] = "complete"
    /\ metrics["B"].bound

WithinTolerance(w) == Abs(total(w) - W100) <= Tol

\* C6: data is fetched and metrics are computed for a portfolio only if its
\* weights total 100 within 0.01; validate_weights answers invalid exactly
\* for a non-empty weight map outside the tolerance.
C6_WeightSumGate ==
    /\ \A p \in Portfolios :
         (p \in fetched \/ f_who = p \/ metrics[p].bound) => WithinTolerance(weights[p])
    /\ pc # "validate" =>
         \A p \in Portfolios :
           valid[p] <=> (DOMAIN weights[p] = {} \/ WithinTolerance(weights[p]))

C6_Witness ==
    /\ "B" \in fetched
    /\ metrics["B"].bound
    /\ Cardinality(DOMAIN weights["B"]) = 2
    /\ total(weights["B"]) = W100 + Tol

RowIndexes(rows) == 1..Len(rows)

\* C7: the returned matrix holds exactly the dates of the download on which
\* every requested symbol has a value, each with the downloaded values, and
\* no returned cell is missing.
C7_PriceAlignment ==
    f_pc = "returned" =>
        /\ { f_ret.rows[i] : i \in RowIndexes(f_ret.rows) }
             = { raw.rows[i] : i \in { j \in RowIndexes(raw.rows) :
                     \A k \in 1..Len(f_stocks) : raw.rows[j].vals[k] # NA } }
        /\ \A i \in RowIndexes(f_ret.rows) :
             \A k \in 1..Len(f_stocks) : f_ret.rows[i].vals[k] # NA
        /\ \A i, j \in RowIndexes(f_ret.rows) :
             i < j => f_ret.rows[i].date < f_ret.rows[j].date

C7_Witness ==
    /\ f_pc = "returned"
    /\ Len(f_stocks) = 2
    /\ Len(raw.rows) = 2
    /\ Len(f_ret.rows) = 1
    /\ f_ret.rows[1].date = 2

\* C8: when no date has a value for every symbol, the caller reports the
\* portfolio through the "No data available" branch.
C8_EmptyReportedAsNoData ==
    [][ \A p \in Portfolios :
          (/\ pc = FetchPc(p)
           /\ f_pc \in {"returned", "raised"}
           /\ close_data(f_stocks, raw).kind = "return"
           /\ dropna(close_data(f_stocks, raw).data.rows) = << >>)
          => report'[p] = "No data available" ]_vars

\* C9: a call never returns an empty matrix or one with a missing value,
\* and never leaves the retry loop without returning or raising.
C9_NeverReturnsEmpty ==
    /\ f_pc \in {"idle", "download", "returned", "raised"}
    /\ f_pc = "download" => attempt < 3
    /\ f_pc = "returned" =>
         /\ f_ret.rows # << >>
         /\ \A i \in RowIndexes(f_ret.rows) : Complete(f_ret.rows[i])

C9_Witness ==
    /\ f_pc = "raised"
    /\ Len(f_stocks) = 2
    /\ raw.kind = "DataFrame"
    /\ Len(raw.rows) = 2
    /\ dropna(raw.rows) = << >>

\* C10: at most 3 download attempts per call; a rate-limit failure on
\* attempt 1 or 2 leads to a further attempt, a success ends the call at
\* once, and a failure on attempt 3 is raised.
C10_RetryBound ==
    /\ Len(log) <= 3
    /\ \A i \in 1..Len(log) :
         /\ (~log[i].ok /\ log[i].rate /\ i <= 2) =>
               (Len(log) > i \/ (f_pc = "download" /\ attempt = i))
         /\ log[i].ok => (i = Len(log) /\ f_pc = "returned")
         /\ (~log[i].ok /\ i = 3) => f_pc = "raised"

C10_Witness ==
    /\ Len(log) = 3
    /\ ~log[1].ok /\ log[1].rate
    /\ ~log[2].ok /\ log[2].rate
    /\ ~log[3].ok /\ log[3].rate
    /\ f_pc = "raised"

----------------------------------------------------------------------------
(* One call of validate_data, for every frame of up to MaxRows rows with   *)
(* at most one missing value                                               *)

MaxRows == 51

min_rows == 50

\* Variant: a frame of exactly 50 rows is turned down.
validate_dataAtMost(frame) ==
    IF frame.cols = << >> \/ frame.rows = << >>
    THEN FALSE
    ELSE IF Len(frame.rows) <= min_rows
         THEN FALSE
         ELSE IF \E i \in 1..Len(frame.rows) : ~Complete(frame.rows[i])
              THEN FALSE
              ELSE TRUE

\* data.empty holds when either axis has length 0; data.isnull().sum().sum()
\* counts the missing values of the whole frame.
validate_data(frame) ==
    IF frame.cols = << >> \/ frame.rows = << >>
    THEN FALSE
    ELSE IF Len(frame.rows) < min_rows
         THEN FALSE
         ELSE IF \E i \in 1..Len(frame.rows) : ~Complete(frame.rows[i])
              THEN FALSE
              ELSE TRUE

\* The frame of n rows over the columns cols whose only missing value, if
\* any, is in row hole[1], column hole[2].
FrameWith(cols, n, hole) ==
    [cols |-> cols, src |-> cols,
     rows |-> [i \in 1..n |->
                 [date |-> i,
                  vals |-> [k \in 1..Len(cols) |->
                              IF << i, k >> = hole THEN NA ELSE MaxPrice]]]]

Frames ==
    { FrameWith(c, n, << 0, 0 >>) : c \in StockLists, n \in 0..MaxRows }
    \cup { FrameWith(c, MaxRows, << i, k >>) :
             c \in StockLists \ { << >> }, i \in 1..MaxRows, k \in 1..2 }
    \cup { FrameWith(c, min_rows, << i, 1 >>) :
             c \in StockLists \ { << >> }, i \in {1, min_rows} }

ValidateData ==
    /\ m_pc = "validate_data"
    /\ is_valid' = validate_data(v_data)
    /\ m_pc' = "validated"
    /\ UNCHANGED << v_data, price_matrix, weight_vector, risk_free_rate,
                    benchmark, value_series, return_series, condition,
                    metrics_result >>
    /\ UNCHANGED appVars
    /\ UNCHANGED fetchVars
    /\ UNCHANGED sessionVars

InitValidate ==
    /\ AppIdle
    /\ FetchIdle
    /\ SessionIdle
    /\ m_pc = "validate_data"
    /\ price_matrix = << >>
    /\ weight_vector = << >>
    /\ risk_free_rate = 0
    /\ benchmark = NoBenchmark
    /\ value_series = << >>
    /\ return_series = << >>
    /\ condition = "none"
    /\ metrics_result = << >>
    /\ v_data \in Frames
    /\ is_valid = FALSE

NextValidate == ValidateData

SpecValidate == InitValidate /\ [][NextValidate]_vars

\* C20: validate_data returns True exactly when the data is not empty, has
\* at least 50 rows and holds no missing value, and False in every other
\* case; it always returns one of the two.
C20_ValidateData ==
    m_pc = "validated" =>
        /\ is_valid \in BOOLEAN
        /\ is_valid = TRUE <=>
              /\ Len(v_data.cols) > 0 /\ Len(v_data.rows) > 0
              /\ Len(v_data.rows) >= 50
              /\ \A i \in 1..Len(v_data.rows) : \A k \in 1..Len(v_data.cols) :
                     v_data.rows[i].vals[k] # NA

\* A frame of exactly 50 complete rows was accepted.
C20_Witness ==
    /\ m_pc = "validated"
    /\ is_valid = TRUE
    /\ Len(v_data.rows) = 50

----------------------------------------------------------------------------
(* Exact numbers for the metrics engine.  A number is a fraction n/d in     *)
(* lowest terms with d > 0, so that equal numbers are equal records.        *)

RECURSIVE GCD(_, _)
GCD(a, b) == IF b = 0 THEN a ELSE GCD(b, a % b)

Rat(n, d) ==
    LET g == GCD(Abs(n), d)
    IN  [n |-> n \div g, d |-> d \div g]

FromInt(k) == [n |-> k, d |-> 1]

\* The sum is formed over the least common denominator.
RAdd(x, y) ==
    LET g == GCD(x.d, y.d)
    IN  Rat(x.n * (y.d \div g) + y.n * (x.d \div g), (x.d \div g) * y.d)

RNeg(x) == [n |-> 0 - x.n, d |-> x.d]

RSub(x, y) == RAdd(x, RNeg(y))

\* The factors are cancelled crosswise before they are multiplied.
RMul(x, y) ==
    LET g1 == GCD(Abs(x.n), y.d)
        g2 == GCD(Abs(y.n), x.d)
    IN  [n |-> (x.n \div g1) * (y.n \div g2), d |-> (x.d \div g2) * (y.d \div g1)]

\* 1/y for y # 0
RInv(y) == IF y.n > 0 THEN [n |-> y.d, d |-> y.n] ELSE [n |-> 0 - y.d, d |-> 0 - y.n]

RDiv(x, y) == RMul(x, RInv(y))

RLt(x, y) == x.n * y.d < y.n * x.d

RLe(x, y) == x.n * y.d <= y.n * x.d

RAbs(x) == [n |-> Abs(x.n), d |-> x.d]

RECURSIVE RSum(_)
RSum(seq) == IF seq = << >> THEN FromInt(0) ELSE RAdd(seq[1], RSum(Tail(seq)))

RECURSIVE RMax(_)
RMax(seq) ==
    IF Len(seq) = 1 THEN seq[1]
    ELSE LET m == RMax(Tail(seq)) IN IF RLt(m, seq[1]) THEN seq[1] ELSE m

RECURSIVE RMin(_)
RMin(seq) ==
    IF Len(seq) = 1 THEN seq[1]
    ELSE LET m == RMin(Tail(seq)) IN IF RLt(seq[1], m) THEN seq[1] ELSE m

----------------------------------------------------------------------------
(* The metrics engine: PortfolioConstructor, ReturnSeriesComputer and      *)
(* MetricsEngine                                                           *)

MaxLen == 3

MaxValue == 2

base_value == 100

trading_days == 252

\* The number of aligned dates of a price matrix.
Dates(pm) == IF DOMAIN pm = {} THEN 0 ELSE Len(pm[CHOOSE s \in DOMAIN pm : TRUE])

\* The symbols in a fixed order, to sum over.
RECURSIVE SeqOf(_)
SeqOf(S) == IF S = {} THEN << >>
            ELSE LET s == CHOOSE x \in S : TRUE IN << s >> \o SeqOf(S \ {s})

\* Variant: each symbol is normalized by its latest price, not its first.
PortfolioConstructorLast(pm, wv) ==
    LET syms == SeqOf(DOMAIN pm)
    IN  [t \in 1..Dates(pm) |->
           RMul(FromInt(base_value),
                RSum([i \in 1..Len(syms) |->
                        RMul(wv[syms[i]],
                             Rat(pm[syms[i]][t], pm[syms[i]][Dates(pm)]))]))]

\* Each symbol's prices are normalized to 1 at the first date (price_t /
\* price_0), multiplied by the symbol's weight, summed over the symbols
\* and scaled by 100.
PortfolioConstructor(pm, wv) ==
    LET syms == SeqOf(DOMAIN pm)
    IN  [t \in 1..Dates(pm) |->
           RMul(FromInt(base_value),
                RSum([i \in 1..Len(syms) |->
                        RMul(wv[syms[i]],
                             Rat(pm[syms[i]][t], pm[syms[i]][1]))]))]

NoReturns == [condition |-> "EmptySeries", r |-> << >>]

\* Variant: a series too short for a return yields an empty return series.
ReturnSeriesComputerSilent(V) ==
    [condition |-> "none",
     r |-> [t \in 1..(IF Len(V) = 0 THEN 0 ELSE Len(V) - 1) |->
              RSub(RDiv(V[t + 1], V[t]), FromInt(1))]]

\* Variant: the change is taken relative to the later value.
ReturnSeriesComputerBackward(V) ==
    IF Len(V) < 2
    THEN NoReturns
    ELSE [condition |-> "none",
          r |-> [t \in 1..(Len(V) - 1) |-> RSub(FromInt(1), RDiv(V[t], V[t + 1]))]]

\* Simple daily returns r = V_t / V_(t-1) - 1; fewer than two values is
\* the EmptySeries condition.
ReturnSeriesComputer(V) ==
    IF Len(V) < 2
    THEN NoReturns
    ELSE [condition |-> "none",
          r |-> [t \in 1..(Len(V) - 1) |-> RSub(RDiv(V[t + 1], V[t]), FromInt(1))]]

\* A metric value: undefined (NaN); a fraction q; the number q^d - 1; or a
\* number that involves the sample standard deviation s of a sequence d of
\* fractions that are not all equal: q * s * sqrt(252) ("dev"),
\* q / (s * sqrt(252)) ("per dev"), the skewness of d ("skew").  The forms
\* "beta" and "alpha" stand for Cov/Var and the CAPM alpha of a pair d of
\* sequences.  Zero is always the value Zero.
Undefined == [k |-> "nan", q |-> FromInt(0), d |-> FromInt(1)]

Exact(q) == [k |-> "num", q |-> q, d |-> FromInt(1)]

Zero == Exact(FromInt(0))

Term(k, q, d) == IF q.n = 0 THEN Zero ELSE [k |-> k, q |-> q, d |-> d]

Power(b, e) == IF b = FromInt(1) THEN Zero ELSE [k |-> "pow", q |-> b, d |-> e]

Mean(rs) == RDiv(RSum(rs), FromInt(Len(rs)))

\* The sample variance sum((r - mean)^2) / (n - 1) of n >= 2 observations
\* is 0 exactly when they are all equal.
Constant(rs) == \A i, j \in 1..Len(rs) : rs[i] = rs[j]

\* stdev(rs, sample) * sqrt(252): the n - 1 denominator leaves the standard
\* deviation of fewer than two observations undefined.
AnnualDeviation(rs) ==
    IF Len(rs) < 2
    THEN Undefined
    ELSE IF Constant(rs) THEN Zero ELSE Term("dev", FromInt(1), rs)

AnnualReturn(rs) == RMul(Mean(rs), FromInt(trading_days))

\* num / den for den # 0, a fraction or a deviation
Quotient(num, den) ==
    IF den.k = "num"
    THEN Exact(RDiv(num, den.q))
    ELSE Term("per dev", RDiv(num, den.q), den.d)

\* Variant: the quotient is formed whatever the denominator is, and a
\* division by zero leaves the value undefined.
RatioUnguarded(num, den) ==
    IF den.k = "nan" \/ den = Zero
    THEN Undefined
    ELSE Quotient(num, den)

\* num / den under the zero-denominator policy: 0 when den is 0.
Ratio(num, den) ==
    IF den.k = "nan"
    THEN Undefined
    ELSE IF den = Zero
         THEN Zero
         ELSE Quotient(num, den)

\* running_max(V_0..V_t)
RunningMax(V, t) == RMax(SubSeq(V, 1, t))

\* Variant: the largest fall is reported as a positive fraction of the value.
MaxDrawdownAsLoss(V) ==
    RMax([t \in 1..Len(V) |-> RSub(RDiv(RunningMax(V, t), V[t]), FromInt(1))])

\* Variant: the peak is the maximum of the whole series.
MaxDrawdownGlobalMax(V) ==
    RMin([t \in 1..Len(V) |-> RSub(RDiv(V[t], RMax(V)), FromInt(1))])

\* min over t of (V_t / running_max(V_0..V_t) - 1)
MaxDrawdown(V) ==
    RMin([t \in 1..Len(V) |-> RSub(RDiv(V[t], RunningMax(V, t)), FromInt(1))])

TotalReturn(V) == RSub(RDiv(V[Len(V)], V[1]), FromInt(1))

\* The downside set: the returns below zero.
NegativeReturns(rs) == SelectSeq(rs, LAMBDA r : r.n < 0)

\* Variant: the standard deviation of an empty downside set is undefined.
DownsideDeviationNaN(rs) == AnnualDeviation(NegativeReturns(rs))

\* An empty downside set has downside deviation 0.
DownsideDeviation(rs) ==
    IF NegativeReturns(rs) = << >> THEN Zero ELSE AnnualDeviation(NegativeReturns(rs))

\* The k-th smallest of the returns.
OrderStat(rs, k) ==
    CHOOSE x \in {rs[i] : i \in 1..Len(rs)} :
        /\ Cardinality({i \in 1..Len(rs) : RLt(rs[i], x)}) < k
        /\ Cardinality({i \in 1..Len(rs) : RLe(rs[i], x)}) >= k

\* The 5th percentile, interpolated linearly between the order statistics
\* on either side of position (n - 1) * 5 / 100.
ValueAtRisk(rs) ==
    LET h  == Rat((Len(rs) - 1) * 5, 100)
        lo == h.n \div h.d
    IN  IF Len(rs) = 1
        THEN rs[1]
        ELSE RAdd(OrderStat(rs, lo + 1),
                  RMul(RSub(h, FromInt(lo)),
                       RSub(OrderStat(rs, lo + 2), OrderStat(rs, lo + 1))))

\* Sample skewness: the third standardized moment, a ratio over the cube
\* of the sample standard deviation; it needs three observations.
Skewness(rs) ==
    IF Len(rs) < 3
    THEN Undefined
    ELSE IF Constant(rs) THEN Zero ELSE Term("skew", FromInt(1), rs)

CoreMetrics == {"Total Return", "Annual Return", "CAGR", "Annual Volatility",
                "Max Drawdown", "Sharpe Ratio", "Sortino Ratio", "Calmar Ratio",
                "Value at Risk (95%)", "Skewness"}

BenchmarkMetrics == {"Information Ratio", "Beta", "Alpha"}

\* Cov(portfolio, benchmark) / Var(benchmark): undefined for fewer than two
\* observations, 0 by the policy when the benchmark's variance is 0, and 1
\* when the two return series are the same.
Beta(rs, bs) ==
    IF Len(rs) < 2
    THEN Undefined
    ELSE IF Constant(bs)
         THEN Zero
         ELSE IF rs = bs THEN Exact(FromInt(1)) ELSE Term("beta", FromInt(1), << rs, bs >>)

\* Annual Return - [rf + Beta * (Benchmark Annual Return - rf)]
Alpha(rs, bs, rf) ==
    IF Beta(rs, bs).k = "nan"
    THEN Undefined
    ELSE IF Beta(rs, bs).k = "num"
         THEN Exact(RSub(AnnualReturn(rs),
                         RAdd(rf, RMul(Beta(rs, bs).q, RSub(AnnualReturn(bs), rf)))))
         ELSE Term("alpha", FromInt(1), << rs, bs >>)

InformationRatio(rs, bs) ==
    Ratio(RSub(AnnualReturn(rs), AnnualReturn(bs)),
          AnnualDeviation([t \in 1..Len(rs) |-> RSub(rs[t], bs[t])]))

WithBenchmark(rs, bs, rf) ==
    [m \in BenchmarkMetrics |->
       IF m = "Information Ratio" THEN InformationRatio(rs, bs)
       ELSE IF m = "Beta" THEN Beta(rs, bs)
       ELSE Alpha(rs, bs, rf)]

\* Variant: without a benchmark the market is taken to have returned
\* nothing, and the three metrics are computed against that.
MissingBenchmarkAsFlat(rs, b, rf) ==
    WithBenchmark(rs,
                  IF b.present THEN ReturnSeriesComputer(b.V).r
                  ELSE [t \in 1..Len(rs) |-> FromInt(0)],
                  rf)

\* MissingBenchmark: without a benchmark series the three metrics that
\* depend on it are left out of the result.
BenchmarkPart(rs, b, rf) ==
    IF b.present
    THEN WithBenchmark(rs, ReturnSeriesComputer(b.V).r, rf)
    ELSE << >>

\* compute(..) -> MetricsResult from the return series rs, the risk-free
\* rate rf, the optional benchmark b and the value series V.
MetricsEngine(rs, rf, b, V) ==
    [m \in CoreMetrics |->
       CASE m = "Total Return"        -> Exact(TotalReturn(V))
         [] m = "Annual Return"       -> Exact(AnnualReturn(rs))
         [] m = "CAGR"                -> Power(RDiv(V[Len(V)], V[1]), Rat(trading_days, Len(rs)))
         [] m = "Annual Volatility"   -> AnnualDeviation(rs)
         [] m = "Max Drawdown"        -> Exact(MaxDrawdown(V))
         [] m = "Sharpe Ratio"        -> Ratio(RSub(AnnualReturn(rs), rf), AnnualDeviation(rs))
         [] m = "Sortino Ratio"       -> Ratio(RSub(AnnualReturn(rs), rf), DownsideDeviation(rs))
         [] m = "Calmar Ratio"        -> Ratio(AnnualReturn(rs), Exact(RAbs(MaxDrawdown(V))))
         [] m = "Value at Risk (95%)" -> Exact(ValueAtRisk(rs))
         [] m = "Skewness"            -> Skewness(rs)]
    @@ BenchmarkPart(rs, b, rf)

----------------------------------------------------------------------------
(* One analysis: compute(prices, weights, riskFreeRate, benchmark?)        *)

SymbolSets == { S \in SUBSET Stocks : S # {} }

PriceMatrices ==
    UNION { [S -> [1..n -> 1..MaxValue]] : S \in SymbolSets, n \in 0..MaxLen }

\* Fractions in quarters: vectors that sum to 1 and, since the engine does
\* not validate the sum, one that does not.
Quarters == {0, 1, 2, 3, 4}

WeightVectors(S) ==
    { wv \in [S -> { Rat(k, 4) : k \in Quarters }] :
        LET units == RSum([i \in 1..Len(SeqOf(S)) |-> wv[SeqOf(S)[i]]])
        IN  units = FromInt(1) \/ units = Rat(3, 4) }

\* The risk-free rate the page passes by default, as a decimal.
RiskFreeRates == { Rat(65, 1000) }

\* No benchmark, or an index that moved as the first symbol did.
Benchmarks(pm) ==
    { NoBenchmark,
      [present |-> TRUE, V |-> [t \in 1..Dates(pm) |-> FromInt(pm[SeqOf(DOMAIN pm)[1]][t])]] }

Construct ==
    /\ m_pc = "construct"
    /\ value_series' = PortfolioConstructor(price_matrix, weight_vector)
    /\ m_pc' = "returns"
    /\ UNCHANGED << price_matrix, weight_vector, risk_free_rate, benchmark,
                    return_series, condition, metrics_result, v_data, is_valid >>
    /\ UNCHANGED appVars
    /\ UNCHANGED fetchVars
    /\ UNCHANGED sessionVars

\* The return series is computed, or the EmptySeries condition reported
\* and the analysis ended.
ComputeReturns ==
    /\ m_pc = "returns"
    /\ LET res == ReturnSeriesComputer(value_series)
       IN  IF res.condition # "none"
           THEN /\ condition' = res.condition
                /\ return_series' = return_series
                /\ m_pc' = "failed"
           ELSE /\ condition' = condition
                /\ return_series' = res.r
                /\ m_pc' = "metrics"
    /\ UNCHANGED << price_matrix, weight_vector, risk_free_rate, benchmark,
                    value_series, metrics_result, v_data, is_valid >>
    /\ UNCHANGED appVars
    /\ UNCHANGED fetchVars
    /\ UNCHANGED sessionVars

ComputeMetrics ==
    /\ m_pc = "metrics"
    /\ metrics_result' =
         MetricsEngine(return_series, risk_free_rate, benchmark, value_series)
    /\ m_pc' = "done"
    /\ UNCHANGED << price_matrix, weight_vector, risk_free_rate, benchmark,
                    value_series, return_series, condition, v_data, is_valid >>
    /\ UNCHANGED appVars
    /\ UNCHANGED fetchVars
    /\ UNCHANGED sessionVars

InitEngine ==
    /\ AppIdle
    /\ FetchIdle
    /\ SessionIdle
    /\ ValidateIdle
    /\ m_pc = "construct"
    /\ price_matrix \in PriceMatrices
    /\ weight_vector \in WeightVectors(DOMAIN price_matrix)
    /\ risk_free_rate \in RiskFreeRates
    /\ benchmark \in Benchmarks(price_matrix)
    /\ value_series = << >>
    /\ return_series = << >>
    /\ condition = "none"
    /\ metrics_result = << >>

NextEngine ==
    \/ Construct
    \/ ComputeReturns
    \/ ComputeMetrics

SpecEngine == InitEngine /\ [][NextEngine]_vars

----------------------------------------------------------------------------
(* Claims about the metrics engine                                         *)

Computed == m_pc = "done"

NonDecreasing(V) == \A t \in 1..(Len(V) - 1) : RLe(V[t], V[t + 1])

\* C11: for every value series of positive values the Max Drawdown is a
\* number between -1 and 0, both included.
C11_DrawdownRange ==
    Computed =>
        LET mdd == metrics_result["Max Drawdown"]
        IN  /\ \A t \in 1..Len(value_series) : value_series[t].n > 0
            /\ mdd.k = "num"
            /\ mdd.q.n <= 0
            /\ 0 - mdd.q.n <= mdd.q.d

\* The value fell below an earlier peak and the drawdown is negative.
C11_Witness ==
    /\ Computed
    /\ ~NonDecreasing(value_series)
    /\ metrics_result["Max Drawdown"].q.n < 0

\* C12: when the value series never falls from one date to the next, the
\* Max Drawdown is exactly 0.
C12_NoDrawdownWhenNonDecreasing ==
    (Computed /\ NonDecreasing(value_series)) =>
        metrics_result["Max Drawdown"] = Zero

\* A series that rose and never fell has Max Drawdown 0.
C12_Witness ==
    /\ Computed
    /\ NonDecreasing(value_series)
    /\ RLt(value_series[1], value_series[Len(value_series)])
    /\ metrics_result["Max Drawdown"] = Zero

MetricForms == {"nan", "num", "pow", "dev", "per dev", "skew", "beta", "alpha"}

\* The benchmark's returns, for a benchmark that is present.
BenchmarkReturns == ReturnSeriesComputer(benchmark.V).r

TrackingDifference ==
    [t \in 1..Len(return_series) |-> RSub(return_series[t], BenchmarkReturns[t])]

\* C13: whenever the denominator of the Sharpe, Sortino, Information or
\* Calmar Ratio is zero the ratio is 0, and every analysis of a well-formed
\* return series ends with a result in which every metric has a value and
\* no condition is reported.
C13_ZeroDenominatorPolicy ==
    Computed =>
        /\ condition = "none"
        /\ CoreMetrics \subseteq DOMAIN metrics_result
        /\ \A m \in DOMAIN metrics_result : metrics_result[m].k \in MetricForms
        /\ metrics_result["Annual Volatility"] = Zero =>
             metrics_result["Sharpe Ratio"] = Zero
        /\ (\/ NegativeReturns(return_series) = << >>
            \/ /\ Len(NegativeReturns(return_series)) >= 2
               /\ Constant(NegativeReturns(return_series))) =>
             metrics_result["Sortino Ratio"] = Zero
        /\ (/\ benchmark.present
            /\ Len(return_series) >= 2
            /\ Constant(TrackingDifference)) =>
             metrics_result["Information Ratio"] = Zero
        /\ metrics_result["Max Drawdown"] = Zero =>
             metrics_result["Calmar Ratio"] = Zero

\* Volatility, tracking error and drawdown are all zero while the excess
\* return over the risk-free rate is not, and the ratios are reported as 0.
C13_Witness ==
    /\ Computed
    /\ metrics_result["Annual Volatility"] = Zero
    /\ metrics_result["Max Drawdown"] = Zero
    /\ benchmark.present
    /\ metrics_result["Annual Return"] # Exact(risk_free_rate)
    /\ metrics_result["Sharpe Ratio"] = Zero
    /\ metrics_result["Information Ratio"] = Zero
    /\ metrics_result["Calmar Ratio"] = Zero

ConstantSeries(V) == \A t \in 1..Len(V) : V[t] = V[1]

ConstantSeriesMetrics ==
    /\ metrics_result["Total Return"] = Zero
    /\ metrics_result["Annual Volatility"] = Zero
    /\ metrics_result["Max Drawdown"] = Zero
    /\ metrics_result["Sharpe Ratio"] = Zero
    /\ metrics_result["Sortino Ratio"] = Zero
    /\ metrics_result["Calmar Ratio"] = Zero

Constructed == m_pc \in {"returns", "metrics", "done", "failed"}

RECURSIVE IntSum(_, _)
IntSum(f, S) ==
    IF S = {} THEN 0
    ELSE LET x == CHOOSE y \in S : TRUE IN f[x] + IntSum(f, S \ {x})

RECURSIVE IntProduct(_, _)
IntProduct(f, S) ==
    IF S = {} THEN 1
    ELSE LET x == CHOOSE y \in S : TRUE IN f[x] * IntProduct(f, S \ {x})

\* The weight of a symbol counted in quarters.
InQuarters(w) == w.n * (4 \div w.d)

FirstPrice == [s \in DOMAIN price_matrix |-> price_matrix[s][1]]

\* 4 * (product of the first prices) * sum_i w_i * price_i(t) / price_i(0)
WeightedPrices(t) ==
    IntSum([s \in DOMAIN price_matrix |->
              InQuarters(weight_vector[s]) * price_matrix[s][t]
                * IntProduct(FirstPrice, DOMAIN price_matrix \ {s})],
           DOMAIN price_matrix)

\* C15: the portfolio value on date t is 100 * sum_i w_i * price_i(t) /
\* price_i(0); when the weights sum to 1 the first value is 100; and with
\* one symbol at weight 1 the value is 100 * price(t) / price(0).
C15_PortfolioValue ==
    Constructed =>
        /\ Len(value_series) = Dates(price_matrix)
        /\ \A t \in 1..Len(value_series) :
             value_series[t].n * 4 * IntProduct(FirstPrice, DOMAIN price_matrix)
               = value_series[t].d * 100 * WeightedPrices(t)
        /\ (/\ Len(value_series) >= 1
            /\ IntSum([s \in DOMAIN price_matrix |-> InQuarters(weight_vector[s])],
                      DOMAIN price_matrix) = 4) =>
             value_series[1] = FromInt(100)
        /\ \A s \in DOMAIN price_matrix :
             (DOMAIN price_matrix = {s} /\ weight_vector[s] = FromInt(1)) =>
                \A t \in 1..Len(value_series) :
                   value_series[t].n * price_matrix[s][1]
                     = value_series[t].d * 100 * price_matrix[s][t]

\* Two symbols with different weights and different price paths were
\* combined into a series that starts at 100 and moves.
C15_Witness ==
    /\ Constructed
    /\ Cardinality(DOMAIN price_matrix) = 2
    /\ \E s, u \in DOMAIN price_matrix :
         /\ RLt(FromInt(0), weight_vector[s])
         /\ RLt(weight_vector[s], weight_vector[u])
         /\ price_matrix[s] # price_matrix[u]
    /\ Len(value_series) >= 2
    /\ value_series[1] = FromInt(100)
    /\ value_series[2] # value_series[1]

\* C16: a value series of fewer than 2 values makes the return computation
\* end with the EmptySeries condition, with no return series and no
\* metrics; a series of n >= 2 values yields exactly n - 1 returns.
C16_ReturnSeriesLength ==
    (m_pc \in {"metrics", "done", "failed"}) =>
        IF Len(value_series) < 2
        THEN /\ m_pc = "failed"
             /\ condition = "EmptySeries"
             /\ return_series = << >>
             /\ metrics_result = << >>
        ELSE /\ m_pc # "failed"
             /\ condition = "none"
             /\ Len(return_series) = Len(value_series) - 1

\* A series of a single value was turned down with EmptySeries.
C16_Witness ==
    /\ m_pc = "failed"
    /\ Len(value_series) = 1
    /\ condition = "EmptySeries"

RECURSIVE Reconstruct(_, _)
Reconstruct(v0, rs) ==
    IF rs = << >> THEN << v0 >>
    ELSE << v0 >> \o Reconstruct(RMul(v0, RAdd(FromInt(1), rs[1])), Tail(rs))

\* C17: rebuilding the value series from its first value and its return
\* series by V_t = V_(t-1) * (1 + r_t) gives the original series back.
C17_RoundTrip ==
    (m_pc \in {"metrics", "done"}) =>
        Reconstruct(value_series[1], return_series) = value_series

\* A series that rose and fell was rebuilt from its returns.
C17_Witness ==
    /\ m_pc \in {"metrics", "done"}
    /\ \E t \in 1..Len(return_series) : return_series[t].n > 0
    /\ \E t \in 1..Len(return_series) : return_series[t].n < 0
    /\ Reconstruct(value_series[1], return_series) = value_series

\* C18: an analysis without a benchmark ends with a result and no reported
\* condition; Information Ratio, Beta and Alpha are each left out of the
\* result or 0, and every other metric has a value.
C18_MissingBenchmark ==
    (Computed /\ ~benchmark.present) =>
        /\ condition = "none"
        /\ \A m \in BenchmarkMetrics :
             m \in DOMAIN metrics_result => metrics_result[m] = Zero
        /\ \A m \in CoreMetrics :
             m \in DOMAIN metrics_result /\ metrics_result[m].k \in MetricForms

\* Without a benchmark the Sharpe Ratio was computed and is not zero, and
\* the page's lookup of the Information Ratio falls back to its default.
C18_Witness ==
    /\ Computed
    /\ ~benchmark.present
    /\ metrics_result["Sharpe Ratio"].k = "per dev"
    /\ "Information Ratio" \notin DOMAIN metrics_result

----------------------------------------------------------------------------
(* Claims about the two analyses of one request                            *)

Other(p) == IF p = "A" THEN "B" ELSE "A"

\* What the page holds for portfolio p.
Slots(p) == << stocks[p], weights[p], report[p], metrics[p] >>

----------------------------------------------------------------------------
(* Claims about the retries of fetch_stock_data                            *)

\* C21: the waits before the successive retries of a fetch whose every
\* attempt is rate limited are 10 s, 20 s and 40 s.
C21_BackoffSchedule ==
    (/\ f_pc \in {"raised", "fell_through"}
     /\ Len(log) = max_retries
     /\ \A i \in 1..Len(log) : ~log[i].ok /\ log[i].rate) =>
        waits = << 10, 20, 40 >>

\* The outcome of the latest download attempt.
LatestOutcome == try_body(f_stocks, raw)

\* The latest attempt failed with an error whose text holds none of the
\* rate-limit keywords.
OtherFailure ==
    /\ raw.kind # "none"
    /\ LatestOutcome.kind = "raise"
    /\ LatestOutcome.keywords
         \cap {"rate", "too many", "throttle", "429", "503", "timeout"} = {}

\* C22: an attempt that fails with an error that is not a rate-limit error,
\* the "No valid data" error of an empty result included, makes the call
\* raise at once: no wait follows it and no further download attempt.
C22_OnlyRateLimitRetried ==
    OtherFailure =>
        /\ f_pc = "raised"
        /\ Len(waits) = Len(log) - 1
        /\ attempt = Len(log) - 1

\* A rate-limited attempt was retried after 10 s, the second download
\* delivered only rows with a missing value, and the call raised.
C22_Witness ==
    /\ OtherFailure
    /\ raw.kind = "DataFrame"
    /\ raw.rows # << >>
    /\ Len(log) = 2
    /\ log[1].rate
    /\ waits = << 10 >>
    /\ f_pc = "raised"

----------------------------------------------------------------------------
(* Claims about the request as a whole                                     *)

InvalidSelected(p) == stocks[p] # << >> /\ ~WithinTolerance(weights[p])

\* C25: when the button is pressed and the weights of a selected portfolio
\* fail validation, the run stops before any data is fetched: no fetch is
\* called and no metrics are produced for either portfolio, the one whose
\* own weights are valid included.
C25_InvalidWeightsStop ==
    (pc # "validate" /\ \E p \in Portfolios : InvalidSelected(p)) =>
        /\ pc = "stopped"
        /\ fetched = {}
        /\ FetchIdle
        /\ verdict = "none"
        /\ \A p \in Portfolios :
             ~metrics[p].bound /\ report[p] \in {"none", "weight error"}

\* A's weights were turned down; B is selected with valid weights and has
\* no metrics.
C25_Witness ==
    /\ pc = "stopped"
    /\ report["A"] = "weight error"
    /\ stocks["B"] # << >>
    /\ WithinTolerance(weights["B"])
    /\ report["B"] = "none"
    /\ ~metrics["B"].bound

\* C27: in the matrix returned for two or more stocks, the column labelled
\* with stock s holds the close prices downloaded for ticker s.NS, in
\* whatever order the stocks were requested and the download delivers its
\* columns.
C27_ColumnLabelling ==
    (f_pc = "returned" /\ Len(f_stocks) >= 2) =>
        \A k \in 1..Len(f_ret.cols) : f_ret.src[k] = f_ret.cols[k] \o ".NS"

Verdicts == {"BothBetter(A)", "BothBetter(B)", "HigherReturn(A)",
             "HigherReturn(B)", "Comparable"}

\* C28: a verdict is shown only if the metrics of both portfolios were
\* computed in this request; when both portfolios are selected and the
\* fetch or the metrics computation of one failed, the comparison reports
\* an error and no verdict.
C28_VerdictNeedsBothMetrics ==
    pc = "done" =>
        /\ verdict \in Verdicts =>
              \A p \in Portfolios : metrics[p].bound /\ p \in fetched
        /\ (/\ \A p \in Portfolios : stocks[p] # << >>
            /\ \E p \in Portfolios : ~metrics[p].bound) =>
              verdict = "Comparison error"

\* A's fetch or computation failed, B's metrics were computed, and the
\* comparison reported an error.
C28_Witness ==
    /\ pc = "done"
    /\ "A" \in failed
    /\ ~metrics["A"].bound
    /\ metrics["B"].bound
    /\ report["B"] = "complete"
    /\ verdict = "Comparison error"

\* C29: the verdict is Comparable only when the two CAGR values, a missing
\* one read as 0, are numerically equal.
C29_ComparableMeansEqual ==
    (pc = "done" /\ verdict = "Comparable") => NumEq(cagr_a, cagr_b)

----------------------------------------------------------------------------
(* The session: mode buttons, stock selection and weight inputs. Every     *)
(* widget event starts a run of the script; session_state is what one run  *)
(* leaves to the next.                                                     *)

modes == << "Home", "Portfolio Analysis", "Single Stock Analysis", "Learn Metrics" >>

Modes == { modes[i] : i \in 1..Len(modes) }

\* The mode setup_sidebar returns: a clicked mode button stores its mode
\* and calls st.rerun(), and the run that follows has no button clicked.
setup_sidebar(mode_now, btn) == IF btn \in Modes THEN btn ELSE mode_now

\* Variant: Learn Metrics is not dispatched.
mainWithoutEducation(mode) ==
    IF mode = "Home" THEN "show_landing_page"
    ELSE IF mode = "Portfolio Analysis" THEN "show_portfolio_analysis"
    ELSE IF mode = "Single Stock Analysis" THEN "show_single_stock_analysis"
    ELSE "none"

\* main: the page function called for the mode.
main(mode) ==
    IF mode = "Home" THEN "show_landing_page"
    ELSE IF mode = "Portfolio Analysis" THEN "show_portfolio_analysis"
    ELSE IF mode = "Single Stock Analysis" THEN "show_single_stock_analysis"
    ELSE IF mode = "Learn Metrics" THEN "show_metrics_education"
    ELSE "none"

Selected(stock_list) == { stock_list[i] : i \in 1..Len(stock_list) }

\* equal_weight_a = 100.0 / num_stocks_a, exact for the selections of Stocks.
equal_weight(n) == W100 \div n

\* Variant: the weights already stored are kept; only new stocks get the
\* equal weight.
ResetKeepsStored(p, stock_list, st) ==
    IF stock_list # << >> /\ Len(stock_list) # st.count[p]
    THEN [weight |-> [st.weight EXCEPT ![p] =
                        [s \in Selected(stock_list) |->
                           IF s \in DOMAIN st.weight[p] THEN st.weight[p][s]
                           ELSE equal_weight(Len(stock_list))]],
          count  |-> [st.count EXCEPT ![p] = Len(stock_list)]]
    ELSE st

\* Variant: the keys to delete are those starting with "weight_".
ResetAnyPrefix(p, stock_list, st) ==
    IF stock_list # << >> /\ Len(stock_list) # st.count[p]
    THEN [weight |-> [q \in Portfolios |->
                        IF q = p
                        THEN [s \in Selected(stock_list) |-> equal_weight(Len(stock_list))]
                        ELSE << >>],
          count  |-> [st.count EXCEPT ![p] = Len(stock_list)]]
    ELSE st

\* "Reset weights if number of stocks changed": the stored weights of the
\* portfolio are deleted, every selected stock gets the equal weight, and
\* the count is recorded.
Reset(p, stock_list, st) ==
    IF stock_list # << >> /\ Len(stock_list) # st.count[p]
    THEN [weight |-> [st.weight EXCEPT ![p] =
                        [s \in Selected(stock_list) |-> equal_weight(Len(stock_list))]],
          count  |-> [st.count EXCEPT ![p] = Len(stock_list)]]
    ELSE st

\* Variant: the weight map takes every stored key of the portfolio.
number_inputStored(stock_list, stored) ==
    [s \in Selected(stock_list) \cup DOMAIN stored |->
       IF s \in DOMAIN stored THEN stored[s] ELSE equal_weight(Len(stock_list))]

\* weights_a: one st.number_input per selected stock, showing the stored
\* weight, or the equal weight when none is stored.
number_input(stock_list, stored) ==
    [s \in Selected(stock_list) |->
       IF s \in DOMAIN stored THEN stored[s] ELSE equal_weight(Len(stock_list))]

\* One column of the page: the reset test, then the weight inputs. The
\* widgets write their values to their keys; the keys of widgets that are
\* not shown do not outlive the run.
Column(p, sel, st) ==
    LET r == Reset(p, sel[p], st)
    IN [r EXCEPT !.weight[p] = number_input(sel[p], r.weight[p])]

\* show_portfolio_analysis down to the Analyze button: column A, then B.
show_portfolio_analysis(sel, st) == Column("B", sel, Column("A", sel, st))

min_value == 0

max_value == W100

\* The values entered in a weight input.
WeightInputs == {min_value, Half, max_value}

\* No script run is in progress.
Waiting == pc \in {"idle", "done", "stopped"}

\* A widget event starts a run: what the run before it displayed, and its
\* local names, are gone.
NewRun ==
    /\ pc' = "rerun"
    /\ valid' = [p \in Portfolios |-> TRUE]
    /\ report' = [p \in Portfolios |-> "none"]
    /\ metrics' = [p \in Portfolios |-> Unbound]
    /\ verdict' = "none"
    /\ fetched' = {}
    /\ failed' = {}

\* A mode button of the sidebar is clicked.
ClickMode(m) ==
    /\ Waiting
    /\ clicked' = m
    /\ NewRun
    /\ UNCHANGED << stocks, weights, app_mode, last_stocks_count, session_weight, page >>
    /\ UNCHANGED fetchVars
    /\ UNCHANGED engineVars

\* A stock is added to the multiselect of a portfolio, or removed from it.
SelectStocks(p, stock_list) ==
    /\ Waiting
    /\ page = "show_portfolio_analysis"
    /\ \/ \E s \in Stocks \ Selected(stocks[p]) : stock_list = Append(stocks[p], s)
       \/ \E i \in 1..Len(stocks[p]) :
            stock_list = SubSeq(stocks[p], 1, i - 1) \o SubSeq(stocks[p], i + 1, Len(stocks[p]))
    /\ stocks' = [stocks EXCEPT ![p] = stock_list]
    /\ clicked' = "none"
    /\ NewRun
    /\ UNCHANGED << weights, app_mode, last_stocks_count, session_weight, page >>
    /\ UNCHANGED fetchVars
    /\ UNCHANGED engineVars

\* A weight input is edited; the widget keeps the value within its bounds.
EditWeight(p, s, w) ==
    /\ Waiting
    /\ page = "show_portfolio_analysis"
    /\ s \in DOMAIN session_weight[p]
    /\ w # session_weight[p][s]
    /\ session_weight' = [session_weight EXCEPT ![p][s] = w]
    /\ clicked' = "none"
    /\ NewRun
    /\ UNCHANGED << stocks, weights, app_mode, last_stocks_count, page >>
    /\ UNCHANGED fetchVars
    /\ UNCHANGED engineVars

\* The "Analyze Portfolios" button is clicked.
PressAnalyze ==
    /\ Waiting
    /\ page = "show_portfolio_analysis"
    /\ clicked' = "analyze_portfolios"
    /\ NewRun
    /\ UNCHANGED << stocks, weights, app_mode, last_stocks_count, session_weight, page >>
    /\ UNCHANGED fetchVars
    /\ UNCHANGED engineVars

\* One run of the script: setup_sidebar, then the page of the mode. On the
\* portfolio page the run goes on into the Analyze handler when its button
\* was clicked. The selections and weights are widget state: a run that
\* does not show the portfolio page leaves none of it.
Rerun ==
    /\ pc = "rerun"
    /\ LET mode == setup_sidebar(app_mode, clicked)
           st == [weight |-> session_weight, count |-> last_stocks_count]
       IN /\ app_mode' = mode
          /\ page' = main(mode)
          /\ IF main(mode) = "show_portfolio_analysis"
             THEN LET r == show_portfolio_analysis(stocks, st)
                  IN /\ stocks' = stocks
                     /\ session_weight' = r.weight
                     /\ last_stocks_count' = r.count
                     /\ weights' = r.weight
                     /\ pc' = IF clicked = "analyze_portfolios" THEN "validate" ELSE "idle"
             ELSE /\ stocks' = [p \in Portfolios |-> << >>]
                  /\ session_weight' = [p \in Portfolios |-> << >>]
                  /\ last_stocks_count' = last_stocks_count
                  /\ weights' = [p \in Portfolios |-> << >>]
                  /\ pc' = "idle"
    /\ clicked' = "none"
    /\ UNCHANGED << valid, report, metrics, verdict, fetched, failed >>
    /\ UNCHANGED fetchVars
    /\ UNCHANGED engineVars

\* The first run of a session has shown the landing page.
InitSession ==
    /\ AppIdle
    /\ FetchIdle
    /\ EngineIdle
    /\ SessionIdle

NextSession ==
    \/ \E m \in Modes : ClickMode(m)
    \/ \E p \in Portfolios, l \in StockLists : SelectStocks(p, l)
    \/ \E p \in Portfolios, s \in Stocks, w \in WeightInputs : EditWeight(p, s, w)
    \/ PressAnalyze
    \/ Rerun
    \/ Validate
    \/ \E p \in Portfolios : CallFetch(p)
    \/ \E p \in Portfolios : SkipBlock(p)
    \/ AttemptReturns(AnalyzeDates, {MaxPrice})
    \/ AttemptRetries(AnalyzeDates, {MaxPrice})
    \/ AttemptRaises(AnalyzeDates, {MaxPrice})
    \/ \E p \in Portfolios : FetchFailed(p)
    \/ \E p \in Portfolios : AnalysisFailed(p, AnalyzeResults)
    \/ \E p \in Portfolios : AnalysisDone(p, AnalyzeResults)
    \/ Compare

SpecSession == InitSession /\ [][NextSession]_vars

----------------------------------------------------------------------------
(* Claims about the session                                                *)

\* The run that is about to start shows the portfolio page and finds, for
\* portfolio p, a non-empty selection whose length is not the stored count.
ResetDue(p) ==
    /\ pc = "rerun"
    /\ app_mode = "Portfolio Analysis"
    /\ clicked \notin Modes \ {"Portfolio Analysis"}
    /\ stocks[p] # << >>
    /\ Len(stocks[p]) # last_stocks_count[p]

\* C23: a run that finds the number of selected stocks of a portfolio
\* different from the stored count (the selection not empty) leaves as the
\* stored weights of that portfolio exactly one weight of 100/n for each
\* selected stock, and n as the stored count; these weights total 100.
C23_ResetOnCountChange ==
    [][\A p \in Portfolios :
         ResetDue(p) =>
            LET n == Len(stocks[p]) IN
              /\ DOMAIN session_weight'[p] = Selected(stocks[p])
              /\ \A s \in Selected(stocks[p]) : session_weight'[p][s] * n = W100
              /\ last_stocks_count'[p] = n
              /\ total(session_weight'[p]) = W100]_vars

\* Portfolio B was reset to two equal weights by the run that has just
\* ended, while portfolio A holds its one stock at weight 0.
C23_Witness ==
    /\ pc = "idle"
    /\ stocks["B"] = << "S1", "S2" >>
    /\ last_stocks_count["B"] = 2
    /\ session_weight["B"] = [s \in {"S1", "S2"} |-> Half]
    /\ session_weight["A"] = [s \in {"S1"} |-> min_value]

\* C24: a run that resets the weights of one portfolio leaves the stored
\* weights and the stored count of the other portfolio, both stock
\* selections and app_mode as they were.
C24_ResetFrame ==
    [][\A p \in Portfolios :
         ResetDue(p) =>
            /\ \A q \in Portfolios \ {p} :
                 /\ session_weight'[q] = session_weight[q]
                 /\ last_stocks_count'[q] = last_stocks_count[q]
            /\ stocks' = stocks
            /\ app_mode' = app_mode]_vars

\* Portfolio A was reset to one stock at 100 while portfolio B holds two
\* weights that are not the equal weights.
C24_Witness ==
    /\ pc = "idle"
    /\ stocks["A"] = << "S2" >>
    /\ last_stocks_count["A"] = 1
    /\ session_weight["A"] = [s \in {"S2"} |-> max_value]
    /\ stocks["B"] = << "S2", "S1" >>
    /\ last_stocks_count["B"] = 2
    /\ session_weight["B"] = [s \in {"S1", "S2"} |-> IF s = "S1" THEN max_value ELSE min_value]

\* fetch_stock_data has returned data for portfolio p: PortfolioAnalyzer is
\* called with stocks, weights and data.
Handed(p) == pc = FetchPc(p) /\ f_pc = "returned" /\ f_ret.rows # << >>

\* C26: whenever the analyzer is called for a portfolio, the keys of its
\* weight map are exactly the selected stocks, every weight lies in
\* [0, 100], and the columns of the fetched price matrix carry exactly
\* these labels.
C26_SymbolSetMatch ==
    \A p \in Portfolios :
       Handed(p) =>
          /\ DOMAIN weights[p] = Selected(stocks[p])
          /\ \A s \in DOMAIN weights[p] : 0 <= weights[p][s] /\ weights[p][s] <= W100
          /\ Len(f_ret.cols) = Cardinality(DOMAIN weights[p])
          /\ Selected(f_ret.cols) = DOMAIN weights[p]

\* The analyzer is called for portfolio B, whose two weights were edited,
\* after portfolio A was emptied again.
C26_Witness ==
    /\ Handed("B")
    /\ stocks["B"] = << "S2", "S1" >>
    /\ weights["B"] = [s \in {"S1", "S2"} |-> IF s = "S1" THEN max_value ELSE min_value]
    /\ stocks["A"] = << >>
    /\ last_stocks_count["A"] = 2

\* The page function that belongs to each mode.
ModePage ==
    [m \in Modes |->
       CASE m = "Home" -> "show_landing_page"
         [] m = "Portfolio Analysis" -> "show_portfolio_analysis"
         [] m = "Single Stock Analysis" -> "show_single_stock_analysis"
         [] m = "Learn Metrics" -> "show_metrics_education"]

\* C30: app_mode is Home at first and always one of the four modes; it
\* changes only in a run in which a mode button was clicked, to the mode of
\* that button; and the page shown by the latest run is the page of
\* app_mode.
C30_ModeNavigation ==
    /\ app_mode = "Home"
    /\ [](app_mode \in Modes /\ page = ModePage[app_mode])
    /\ [][app_mode' # app_mode => (pc = "rerun" /\ clicked \in Modes /\ app_mode' = clicked)]_vars

\* Learn Metrics is shown after the portfolio page had held two stocks.
C30_Witness ==
    /\ app_mode = "Learn Metrics"
    /\ page = "show_metrics_education"
    /\ pc = "idle"
    /\ last_stocks_count["A"] = 2

====
